---------------------------- MODULE Spec2Model ----------------------------
(***************************************************************************)
(* Model of custom_components/smoothing_voter/sensor.py:                   *)
(*   - the pure function smoothing_voter (lines 25-58), and                *)
(*   - SmoothingVoterSensorGroup (lines 61-153), the entity that carries   *)
(*     _prev_output from one update cycle to the next.                     *)
(*                                                                         *)
(* Numbers.  Python floats are modelled as fixed-point integers counting   *)
(* hundredths (10.05 is 1005).  The readings and thresholds below are      *)
(* chosen so that every comparison the code makes has the same outcome in  *)
(* binary floating point and in hundredths: the only differences that hit  *)
(* a threshold exactly are differences of exactly representable values     *)
(* (0.0, 20.0).                                                            *)
(*                                                                         *)
(* Optional values.  Python's None is the empty tuple, a present value x   *)
(* is the one-element tuple <<x>>.                                         *)
(*                                                                         *)
(* Sequences are 1-based here and 0-based in Python: Python's s[k] is      *)
(* s[k + 1], and the slice s[i : i + m] is SubSeq(s, i + 1, i + m).        *)
(***************************************************************************)
EXTENDS Integers, Sequences, FiniteSets

VARIABLES
    \* ---- one call of smoothing_voter (the function harness) ----
    inputs,               \* argument `inputs`
    prev_output,          \* argument `prev_output`
    voter_threshold,      \* argument `voter_threshold`
    smoothing_threshold,  \* argument `smoothing_threshold`
    pc,                   \* "idle" | "call" | "raised" | "returned"
    ret,                  \* the returned tuple <<value, calculation type>>
    subset,               \* local `subset`: the last window the loop examined
    \* ---- one SmoothingVoterSensorGroup and the state machine it reads ----
    hass_states,          \* hass.states: entity id -> state string
    _voter_threshold,
    _smoothing_threshold,
    _prev_output,
    _calculation_type,
    _attr_native_value,
    _attr_available

fn_vars == <<inputs, prev_output, voter_threshold, smoothing_threshold,
             pc, ret, subset>>
group_vars == <<hass_states, _voter_threshold, _smoothing_threshold,
                _prev_output, _calculation_type, _attr_native_value,
                _attr_available>>
vars == <<fn_vars, group_vars>>

----------------------------------------------------------------------------
(* Bounds of the model *)

\* longest argument list handed to smoothing_voter by the function harness
MaxLen == 5
\* longest argument list in the permutation harness
MaxPermLen == 4
\* number of member entities of the sensor group
NumEntities == 3

\* readings offered to the function: 10.0, 10.05, 50.0, 70.0
Readings == {1000, 1005, 5000, 7000}
\* previous outputs offered to the function: 10.02, 30.0
PrevValues == {1002, 3000}
\* voter thresholds 0.0 and 0.5; smoothing thresholds 0.0, 1.0 and 20.0
VoterThresholds == {0, 50}
SmoothingThresholds == {0, 100, 2000}

----------------------------------------------------------------------------
(* Optional values *)

None == <<>>
Some(x) == <<x>>
IsNone(o) == o = <<>>
Val(o) == o[1]

----------------------------------------------------------------------------
(* Python builtins used by smoothing_voter *)

abs(x) == IF x < 0 THEN -x ELSE x

RECURSIVE insert(_, _)
insert(x, s) ==
    IF s = <<>> THEN <<x>>
    ELSE IF x < Head(s) THEN <<x>> \o s
    ELSE <<Head(s)>> \o insert(x, Tail(s))

sorted_unsorted(s) == s

RECURSIVE sorted(_)
\* sorted(inputs): the elements in ascending order
sorted(s) ==
    IF s = <<>> THEN <<>>
    ELSE insert(s[Len(s)], sorted(SubSeq(s, 1, Len(s) - 1)))

RECURSIVE max(_)
max(s) ==
    IF Len(s) = 1 THEN s[1]
    ELSE LET r == max(Tail(s)) IN IF s[1] >= r THEN s[1] ELSE r

RECURSIVE min(_)
min(s) ==
    IF Len(s) = 1 THEN s[1]
    ELSE LET r == min(Tail(s)) IN IF s[1] <= r THEN s[1] ELSE r

RECURSIVE min_key(_, _)
\* min(s, key=lambda x: abs(x - p)): the FIRST element of s, in the order of
\* s, whose key is minimal
min_key(s, p) ==
    IF Len(s) = 1 THEN s[1]
    ELSE LET r == min_key(Tail(s), p)
         IN  IF abs(s[1] - p) <= abs(r - p) THEN s[1] ELSE r

----------------------------------------------------------------------------
(* smoothing_voter, line by line *)

too_few_le3(n) == n <= 3

\* line 41: if n < 3
too_few(n) == n < 3

window_len_majority(n) == n \div 2 + 1

\* line 44: m = (n + 1) // 2
window_len(n) == (n + 1) \div 2

\* line 46: subset = sorted_inputs[i : i + m]   (i is the 0-based offset)
window(sorted_inputs, i, m) == SubSeq(sorted_inputs, i + 1, i + m)

\* line 47: max(subset) - min(subset) <= voter_threshold
stable(sub, vt) == max(sub) - min(sub) <= vt

RECURSIVE last_stable(_, _, _, _)
\* the same loop run over reversed(range(n - m + 1))
last_stable(sorted_inputs, m, vt, i) ==
    LET n == Len(sorted_inputs)
        j == (n - m) - i
    IN  IF i >= n - m + 1 THEN n - m + 1
        ELSE IF stable(window(sorted_inputs, j, m), vt) THEN j
        ELSE last_stable(sorted_inputs, m, vt, i + 1)

RECURSIVE first_stable(_, _, _, _)
\* lines 45-49: for i in range(n - m + 1), started at offset i.  The offset at
\* which the loop returns, or n - m + 1 when the range is exhausted.
first_stable(sorted_inputs, m, vt, i) ==
    LET n == Len(sorted_inputs)
    IN  IF i >= n - m + 1 THEN n - m + 1
        ELSE IF stable(window(sorted_inputs, i, m), vt) THEN i
        ELSE first_stable(sorted_inputs, m, vt, i + 1)

window_median_mean(sub, m) == (sub[1] + sub[m]) \div 2

window_median_lower(sub, m) == sub[(m - 1) \div 2 + 1]

\* line 49: subset[m // 2]
window_median(sub, m) == sub[m \div 2 + 1]

fallback_median_lower(sorted_inputs, n) == sorted_inputs[(n - 1) \div 2 + 1]

\* line 52: sorted_inputs[n // 2]
fallback_median(sorted_inputs, n) == sorted_inputs[n \div 2 + 1]

\* line 53: closest_input = min(inputs, key=lambda x: abs(x - prev_output))
closest_input(ins, prev) == min_key(ins, prev)

close_enough_strict(closest, prev, st) == abs(closest - prev) < st

\* line 54: abs(closest_input - prev_output) <= smoothing_threshold
close_enough(closest, prev, st) == abs(closest - prev) <= st

\* lines 40-58.  raised: the ValueError of line 42; value, type: the returned
\* tuple; subset: the value of the local `subset` when the function is left
\* (None when the loop body never ran).
smoothing_voter(ins, prev, vt, st) ==
    LET n == Len(ins)
    IN  IF too_few(n)
        THEN [raised |-> TRUE, value |-> None, type |-> "", subset |-> None]
        ELSE
        LET sorted_inputs == sorted(ins)
            m   == window_len(n)
            i   == first_stable(sorted_inputs, m, vt, 0)
            sub == window(sorted_inputs, IF i <= n - m THEN i ELSE n - m, m)
        IN  IF i <= n - m
            THEN [raised |-> FALSE, value |-> Some(window_median(sub, m)),
                  type |-> "median", subset |-> sub]
            ELSE IF IsNone(prev)
            THEN [raised |-> FALSE,
                  value |-> Some(fallback_median(sorted_inputs, n)),
                  type |-> "median", subset |-> sub]
            ELSE LET closest == closest_input(ins, Val(prev))
                 IN  IF close_enough(closest, Val(prev), st)
                     THEN [raised |-> FALSE, value |-> Some(closest),
                           type |-> "smoothed", subset |-> sub]
                     ELSE [raised |-> FALSE, value |-> None,
                           type |-> "none", subset |-> sub]

----------------------------------------------------------------------------
(* The function harness: one call of smoothing_voter on drawn arguments *)

SeqsUpTo(S, k) == UNION {[1..len -> S] : len \in 0..k}

\* the sensor group as __init__ leaves it (lines 86-89), thresholds drawn
GroupConstructed ==
    /\ _voter_threshold \in VoterThresholds
    /\ _smoothing_threshold \in SmoothingThresholds
    /\ _prev_output = None
    /\ _calculation_type = "none"
    /\ _attr_native_value = None
    /\ _attr_available = TRUE

FnIdle ==
    /\ inputs = <<>>
    /\ prev_output = None
    /\ voter_threshold = 0
    /\ smoothing_threshold = 0
    /\ pc = "idle"
    /\ ret = <<None, "">>
    /\ subset = None

\* the arguments of one call, drawn from the bounded sets; the list has at
\* most k elements
FnDrawn(k) ==
    /\ inputs \in SeqsUpTo(Readings, k)
    /\ prev_output \in {None} \cup {Some(p) : p \in PrevValues}
    /\ voter_threshold \in VoterThresholds
    /\ smoothing_threshold \in SmoothingThresholds
    /\ pc = "call"
    /\ ret = <<None, "">>
    /\ subset = None
    /\ hass_states = [e \in 1..NumEntities |-> None]
    /\ _voter_threshold = 0
    /\ _smoothing_threshold = 0
    /\ _prev_output = None
    /\ _calculation_type = "none"
    /\ _attr_native_value = None
    /\ _attr_available = TRUE

InitFn == FnDrawn(MaxLen)

InitPerm == FnDrawn(MaxPermLen)

\* lines 40-42: the call raises ValueError
CallRaises ==
    /\ pc = "call"
    /\ LET r == smoothing_voter(inputs, prev_output, voter_threshold,
                                smoothing_threshold)
       IN  /\ r.raised
           /\ pc' = "raised"
           /\ UNCHANGED <<ret, subset>>
    /\ UNCHANGED <<inputs, prev_output, voter_threshold, smoothing_threshold>>
    /\ UNCHANGED group_vars

\* lines 43-58: the call returns a tuple
CallReturns ==
    /\ pc = "call"
    /\ LET r == smoothing_voter(inputs, prev_output, voter_threshold,
                                smoothing_threshold)
       IN  /\ ~r.raised
           /\ pc' = "returned"
           /\ ret' = <<r.value, r.type>>
           /\ subset' = r.subset
    /\ UNCHANGED <<inputs, prev_output, voter_threshold, smoothing_threshold>>
    /\ UNCHANGED group_vars

NextFn == CallRaises \/ CallReturns

SpecFn == InitFn /\ [][NextFn]_vars

\* the same harness on shorter lists, for the claims that quantify over every
\* reordering of the list
SpecPerm == InitPerm /\ [][NextFn]_vars

----------------------------------------------------------------------------
(* The sensor group *)

Entities == 1..NumEntities

\* state strings found in hass.states; "unavailable" is not numeric
NumericStrings == {"10.0", "10.05", "30.0", "50.0"}
StateStrings == NumericStrings \cup {"unavailable"}

\* line 107: float(state.state); None stands for the ValueError of a string
\* that is not a number
float(s) ==
    CASE s = "10.0"  -> Some(1000)
      [] s = "10.05" -> Some(1005)
      [] s = "30.0"  -> Some(3000)
      [] s = "50.0"  -> Some(5000)
      [] OTHER       -> None

RECURSIVE collect(_, _)
\* lines 101-122: the loop over self._entity_ids from entity e on.  An entity
\* without a state (hass.states.get is None) and one whose state is not a
\* number are skipped.  The members carry no unit (self._valid_units is
\* empty), so lines 110-117 convert nothing.
collect(states, e) ==
    IF e > NumEntities THEN <<>>
    ELSE LET here == IF IsNone(states[e]) THEN None ELSE float(Val(states[e]))
         IN  here \o collect(states, e + 1)

sensor_values(states) == collect(states, 1)

\* line 124: any_valid and len(sensor_values) >= 3
available(sv) == Len(sv) > 0 /\ Len(sv) >= 3

next_prev_always(prev, new_val) == new_val

next_prev_never(prev, new_val) == prev

\* lines 140-141: if new_val is not None: self._prev_output = new_val
next_prev(prev, new_val) == IF ~IsNone(new_val) THEN new_val ELSE prev

Init ==
    /\ hass_states \in [Entities -> {None}]
    /\ GroupConstructed
    /\ FnIdle

\* the state machine records a new state string for entity e, or (s = None)
\* the entity's state is removed
StateChanged(e, s) ==
    /\ hass_states[e] # s
    /\ hass_states' = [hass_states EXCEPT ![e] = s]
    /\ UNCHANGED <<_voter_threshold, _smoothing_threshold, _prev_output,
                   _calculation_type, _attr_native_value, _attr_available>>
    /\ UNCHANGED fn_vars

\* lines 96-145
async_update_group_state ==
    LET sv == sensor_values(hass_states)
    IN  /\ _attr_available' = available(sv)
        /\ IF ~available(sv)
           THEN /\ _attr_native_value' = None
                /\ _calculation_type' = "none"
                /\ UNCHANGED _prev_output
           ELSE LET r == smoothing_voter(sv, _prev_output, _voter_threshold,
                                         _smoothing_threshold)
                IN  IF r.raised
                    THEN /\ _attr_native_value' = None
                         /\ _calculation_type' = "none"
                         /\ UNCHANGED _prev_output
                    ELSE /\ _attr_native_value' = r.value
                         /\ _calculation_type' = r.type
                         /\ _prev_output' = next_prev(_prev_output, r.value)
        /\ UNCHANGED <<hass_states, _voter_threshold, _smoothing_threshold>>
        /\ UNCHANGED fn_vars

Next ==
    \/ \E e \in Entities :
         \E s \in {None} \cup {Some(x) : x \in StateStrings} :
            StateChanged(e, s)
    \/ async_update_group_state

Spec == Init /\ [][Next]_vars

----------------------------------------------------------------------------
(* Vocabulary of the properties.  These definitions do not use the model's  *)
(* sort or its loops: they say what the result should be, not how the code  *)
(* finds it.                                                                *)

Elems(s) == {s[k] : k \in DOMAIN s}

\* the k-th smallest element of s, k counted from 0 ("sorted[k]")
OrderStat(s, k) ==
    CHOOSE v \in Elems(s) :
        /\ Cardinality({j \in DOMAIN s : s[j] < v}) <= k
        /\ k < Cardinality({j \in DOMAIN s : s[j] <= v})

FloorHalf(k) == k \div 2
CeilHalf(k) == (k + 1) \div 2

\* the window length the code uses
M(n) == FloorHalf(n + 1)

\* offsets i in 0..n-m whose window sorted[i .. i+m-1] has spread <= vt
Qualifying(s, m, vt) ==
    {i \in 0..(Len(s) - m) : OrderStat(s, i + m - 1) - OrderStat(s, i) <= vt}

SetMin(S) == CHOOSE x \in S : \A y \in S : x <= y

\* the smallest distance between an element of s and p
MinDistance(s, p) == SetMin({abs(x - p) : x \in Elems(s)})

RemoveAt(s, k) == SubSeq(s, 1, k - 1) \o SubSeq(s, k + 1, Len(s))

RemoveFirst(s, v) ==
    RemoveAt(s, CHOOSE k \in DOMAIN s :
                    s[k] = v /\ \A j \in 1..(k - 1) : s[j] # v)

RECURSIVE Permutations(_)
\* every list that is a reordering of s
Permutations(s) ==
    IF s = <<>> THEN {<<>>}
    ELSE UNION {{<<v>> \o t : t \in Permutations(RemoveFirst(s, v))} :
                v \in Elems(s)}

Returned == pc = "returned"
RetValue == ret[1]
RetType == ret[2]
N == Len(inputs)
NoWindow == Qualifying(inputs, M(N), voter_threshold) = {}

\* the list of the scenarios: [10.0, 10.05, 50.0]
ScenarioInputs == <<1000, 1005, 5000>>

----------------------------------------------------------------------------
(* C1 *)

\* C1: the value smoothing_voter returns is null or an element of the input
\* list; with classification 'median' or 'smoothed' it is non-null and an
\* element of the inputs.
C1_ValueIsAnInput ==
    Returned =>
        /\ IsNone(RetValue) \/ Val(RetValue) \in Elems(inputs)
        /\ RetType \in {"median", "smoothed"} =>
              ~IsNone(RetValue) /\ Val(RetValue) \in Elems(inputs)

C1_Witness ==
    /\ Returned
    /\ RetType = "median"
    /\ Len(subset) = 2
    /\ subset[1] # subset[2]
    /\ Val(RetValue) \in Elems(inputs)

----------------------------------------------------------------------------
(* C3 *)

\* C3: the call raises ValueError exactly when the list has fewer than three
\* elements; with three or more it returns a pair whose classification is
\* 'median', 'smoothed' or 'none'.
C3_RaisesIffFewerThanThree ==
    /\ pc = "raised" => N < 3
    /\ pc = "returned" => N >= 3 /\ RetType \in {"median", "smoothed", "none"}

C3_Witness == pc = "raised" /\ N = 2 /\ ~IsNone(prev_output)

----------------------------------------------------------------------------
(* C4 *)

\* C4: when some window of length m of the sorted inputs has spread within
\* voter_threshold, the result is (sorted[i0 + floor(m/2)], 'median') with i0
\* the smallest such offset, whatever prev_output and smoothing_threshold are.
C4_FirstQualifyingWindow ==
    (Returned /\ ~NoWindow) =>
        LET m  == M(N)
            i0 == SetMin(Qualifying(inputs, m, voter_threshold))
            expected == <<Some(OrderStat(inputs, i0 + FloorHalf(m))), "median">>
        IN  /\ ret = expected
            /\ \A p \in {None} \cup {Some(x) : x \in PrevValues} :
                 \A st \in SmoothingThresholds :
                   LET r == smoothing_voter(inputs, p, voter_threshold, st)
                   IN  <<r.value, r.type>> = expected

\* two windows qualify and their medians differ
C4_Witness ==
    /\ Returned
    /\ Cardinality(Qualifying(inputs, M(N), voter_threshold)) >= 2
    /\ \E i \in Qualifying(inputs, M(N), voter_threshold) :
          OrderStat(inputs, i + FloorHalf(M(N))) # Val(RetValue)
    /\ ~IsNone(prev_output)

----------------------------------------------------------------------------
(* C5 *)

\* C5: with no qualifying window and a previous output present, the result is
\* 'smoothed' exactly when the inputs' minimum distance to the previous
\* output is within smoothing_threshold, the value is then an input at that
\* minimum distance, and otherwise the result is (null, 'none').
C5_SmoothedIffClose ==
    (Returned /\ NoWindow /\ ~IsNone(prev_output)) =>
        LET d == MinDistance(inputs, Val(prev_output))
        IN  /\ RetType = "smoothed" <=> d <= smoothing_threshold
            /\ RetType = "smoothed" =>
                  /\ ~IsNone(RetValue)
                  /\ Val(RetValue) \in Elems(inputs)
                  /\ abs(Val(RetValue) - Val(prev_output)) = d
            /\ d > smoothing_threshold => ret = <<None, "none">>

\* the minimum distance is exactly the threshold
C5_Witness ==
    /\ Returned /\ NoWindow /\ ~IsNone(prev_output)
    /\ MinDistance(inputs, Val(prev_output)) = smoothing_threshold
    /\ RetType = "smoothed"

----------------------------------------------------------------------------
(* C6 *)

\* C6: with no qualifying window and no previous output the result is
\* (sorted[floor(n/2)], 'median'), whatever smoothing_threshold is; and the
\* inputs [10.0, 10.05, 50.0] with voter_threshold 0.5 and no previous output
\* give (10.05, 'median').
C6_FallbackMedian ==
    /\ (Returned /\ NoWindow /\ IsNone(prev_output)) =>
          ret = <<Some(OrderStat(inputs, FloorHalf(N))), "median">>
    /\ (Returned /\ inputs = ScenarioInputs /\ voter_threshold = 50
          /\ IsNone(prev_output)) =>
          ret = <<Some(1005), "median">>

\* an even number of distinct readings, where the two middle ones differ
C6_Witness ==
    /\ Returned /\ NoWindow /\ IsNone(prev_output)
    /\ N = 4
    /\ OrderStat(inputs, 1) # OrderStat(inputs, 2)
    /\ RetType = "median"

----------------------------------------------------------------------------
(* C7 *)

\* C7 as stated: for every n >= 3 the windows examined have length
\* ceil((n+1)/2).
C7_Original_WindowLenIsCeil ==
    Returned => Len(subset) = CeilHalf(N + 1)

\* C7 amended: for every n >= 3 the windows examined have length
\* floor((n+1)/2) (which is ceil((n+1)/2) for odd n and n/2 for even n), so a
\* call with a previous output returns 'median' exactly when some run of
\* floor((n+1)/2) consecutive sorted inputs has spread within voter_threshold.
C7_WindowLenIsFloor ==
    Returned =>
        /\ Len(subset) = FloorHalf(N + 1)
        /\ ~IsNone(prev_output) =>
              (RetType = "median" <=>
                 Qualifying(inputs, FloorHalf(N + 1), voter_threshold) # {})

\* four readings, windows of two: a pair agrees although no three do
C7_Witness ==
    /\ Returned
    /\ N = 4
    /\ Len(subset) = 2
    /\ ~IsNone(prev_output)
    /\ RetType = "median"
    /\ Qualifying(inputs, 3, voter_threshold) = {}

----------------------------------------------------------------------------
(* C8 *)

\* the loop returned from the window held in `subset`
WindowAccepted ==
    Returned /\ subset[Len(subset)] - subset[1] <= voter_threshold

\* C8 as stated: the value of an accepted window is its lower median: for an
\* even-length window the larger element of the lower half, for an odd-length
\* window the middle element.
C8_Original_LowerMedian ==
    WindowAccepted =>
        LET m == Len(subset)
        IN  /\ RetType = "median"
            /\ Val(RetValue) = IF m % 2 = 0 THEN subset[m \div 2]
                                            ELSE subset[(m + 1) \div 2]

\* C8 amended: the value of an accepted window is its upper median: for an
\* even-length window the smaller element of the upper half (the element just
\* above the midpoint), for an odd-length window the middle element.
C8_UpperMedian ==
    WindowAccepted =>
        LET m == Len(subset)
        IN  /\ RetType = "median"
            /\ Val(RetValue) = IF m % 2 = 0 THEN subset[m \div 2 + 1]
                                            ELSE subset[(m + 1) \div 2]

\* an accepted window of two different readings
C8_Witness ==
    /\ WindowAccepted
    /\ Len(subset) = 2
    /\ subset[1] # subset[2]
    /\ Val(RetValue) = subset[2]

----------------------------------------------------------------------------
(* C9 *)

\* C9: two lists that are reorderings of each other get the same
\* classification, the same value when it is 'median' or 'none', and with
\* 'smoothed' two values that are both at the minimum distance from the
\* previous output.
C9_OrderOfInputsIrrelevant ==
    Returned =>
        \A t \in Permutations(inputs) :
            LET r == smoothing_voter(t, prev_output, voter_threshold,
                                     smoothing_threshold)
            IN  /\ ~r.raised
                /\ r.type = RetType
                /\ RetType \in {"median", "none"} => r.value = RetValue
                /\ (RetType = "smoothed" /\ r.value # RetValue) =>
                      LET d == MinDistance(inputs, Val(prev_output))
                      IN  /\ abs(Val(r.value) - Val(prev_output)) = d
                          /\ abs(Val(RetValue) - Val(prev_output)) = d

\* a reordering changes which of two equidistant readings is returned
C9_Witness ==
    /\ Returned
    /\ RetType = "smoothed"
    /\ inputs[1] # OrderStat(inputs, 0)
    /\ \E t \in Permutations(inputs) :
          smoothing_voter(t, prev_output, voter_threshold,
                          smoothing_threshold).value # RetValue

----------------------------------------------------------------------------
(* C2 *)

\* a step of async_update_group_state: the only steps that leave hass.states
\* alone
UpdateStep == hass_states' = hass_states

\* C2, the general part: the previous output changes only in a cycle whose
\* estimate is non-null and then becomes that estimate; a cycle that ends with
\* 'none' has a null value and leaves the previous output unchanged.
C2_General ==
    /\ _prev_output' # _prev_output =>
          /\ UpdateStep
          /\ ~IsNone(_attr_native_value')
          /\ _prev_output' = _attr_native_value'
    /\ (UpdateStep /\ ~IsNone(_attr_native_value')) =>
          _prev_output' = _attr_native_value'
    /\ _calculation_type' = "none" =>
          /\ IsNone(_attr_native_value')
          /\ _prev_output' = _prev_output

\* the cycle of the example: readings [10.0, 10.05, 50.0], smoothing
\* threshold 1.0, previous output 30.0, and voter threshold vt
ExampleCycle(vt) ==
    /\ UpdateStep
    /\ sensor_values(hass_states) = ScenarioInputs
    /\ _voter_threshold = vt
    /\ _smoothing_threshold = 100
    /\ _prev_output = Some(3000)

\* C2 as stated: the general part, and the example cycle with voter threshold
\* 0.5 ends with (null, 'none') and the previous output still 30.0.
C2_Original ==
    /\ IsNone(_prev_output)
    /\ [][/\ C2_General
          /\ ExampleCycle(50) =>
                /\ _attr_native_value' = None
                /\ _calculation_type' = "none"
                /\ _prev_output' = Some(3000)]_vars

\* C2 amended: the general part; the example cycle with voter threshold 0.5
\* ends with (10.05, 'median') and the previous output 10.05; with voter
\* threshold 0.0 it ends with (null, 'none') and the previous output still
\* 30.0.
C2_PrevChangesOnlyOnEstimate ==
    /\ IsNone(_prev_output)
    /\ [][/\ C2_General
          /\ ExampleCycle(50) =>
                /\ _attr_native_value' = Some(1005)
                /\ _calculation_type' = "median"
                /\ _prev_output' = Some(1005)
          /\ ExampleCycle(0) =>
                /\ _attr_native_value' = None
                /\ _calculation_type' = "none"
                /\ _prev_output' = Some(3000)]_vars

\* the state after the example cycle with voter threshold 0.0
C2_Witness ==
    /\ sensor_values(hass_states) = ScenarioInputs
    /\ _voter_threshold = 0
    /\ _smoothing_threshold = 100
    /\ _prev_output = Some(3000)
    /\ _attr_available
    /\ _calculation_type = "none"
    /\ IsNone(_attr_native_value)

----------------------------------------------------------------------------
(* C10 *)

\* C10: the first cycle with at least three numeric readings ends with a
\* non-null 'median' value and sets the previous output; the previous output
\* is present ever after; a later 'median' comes from a window whose spread is
\* within the voter threshold; 'smoothed' and 'none' with at least three
\* readings occur only when a previous output is present.
C10_FirstCycleIsMedian ==
    [][LET sv == sensor_values(hass_states)
       IN  /\ (UpdateStep /\ IsNone(_prev_output) /\ Len(sv) >= 3) =>
                 /\ _calculation_type' = "median"
                 /\ ~IsNone(_attr_native_value')
                 /\ _prev_output' = _attr_native_value'
           /\ ~IsNone(_prev_output) => ~IsNone(_prev_output')
           /\ (UpdateStep /\ ~IsNone(_prev_output) /\ Len(sv) >= 3
                 /\ _calculation_type' = "median") =>
                 Qualifying(sv, M(Len(sv)), _voter_threshold) # {}
           /\ (UpdateStep /\ Len(sv) >= 3
                 /\ _calculation_type' \in {"smoothed", "none"}) =>
                 ~IsNone(_prev_output)]_vars

\* the state after a first cycle that took the fallback median
C10_Witness ==
    LET sv == sensor_values(hass_states)
    IN  /\ Len(sv) >= 3
        /\ _attr_available
        /\ _calculation_type = "median"
        /\ Qualifying(sv, M(Len(sv)), _voter_threshold) = {}
        /\ ~IsNone(_prev_output)
        /\ _prev_output = _attr_native_value

=============================================================================
